---- MODULE Spec2Model ----
(***************************************************************************)
(* A model of the request/response translation engine of neofs-http-gw:    *)
(* the upload handler (uploader/upload.go with the objectCreator of        *)
(* neofs.go and tokens.ReadBearer), the download handler Downloader.read   *)
(* with ResRead, the content-type detector, and the zip streamer.          *)
(*                                                                         *)
(* Each handler is a state machine over its own variables; a handler's     *)
(* specification leaves the other handlers' variables at their idle        *)
(* values.                                                                 *)
(*                                                                         *)
(* Strings are modelled by their syntactic class: a header value is a      *)
(* record [k, n] where k says what the text looks like ("dur": a Go        *)
(* duration literal of n milliseconds, "int": a decimal integer n,         *)
(* "rfc": an RFC3339 instant n seconds after the Unix epoch, "txt": any    *)
(* other non-empty text, "empty": the empty string).                       *)
(***************************************************************************)
EXTENDS Integers, Sequences, FiniteSets, TLC

VARIABLES
    \* ---- uploader.uploadContext and the request it handles
    req,        \* the upload request: container, bearer sources, parts, headers
    pc,         \* position of Upload
    fail,       \* uploadContext.fail
    err,        \* uploadContext.err ("" is nil)
    status,     \* response status code (0: not written)
    msg,        \* response error message ("" none)
    errCount,   \* number of error responses written by failRequest
    body,       \* response body written by the JSON encoder (NoBody: none)
    resp,       \* uploadContext.resp
    srcPayload, \* uploadContext.srcPayload: index of the part (0: nil)
    partPos,    \* number of NextPart calls made on the multipart reader
    drained,    \* the body remainder was read to io.Discard
    ph,         \* locals of processHeaders: loop index, hdr, meta, exp
    oc,         \* the objectCreator of neofs.go
    net,        \* the storage network as seen by this request
    \* ---- Downloader.read
    dl,
    \* ---- detector
    det,
    \* ---- Downloader.streamFiles
    zp,
    \* ---- Downloader.DownloadZipped: the request and its response
    zr,
    \* ---- request.receiveFile: the fetched object and the response headers
    rf,
    \* ---- concurrent Upload requests: their contexts and object creators
    cu

upVars == <<req, pc, fail, err, status, msg, errCount, body, resp, srcPayload,
            partPos, drained, ph, oc, net>>
vars == <<upVars, dl, det, zp, zr, rf, cu>>

(***************************************************************************)
(* Bounds of the model.                                                    *)
(***************************************************************************)
MaxParts == 2      \* parts of a multipart body
MaxHeaders == 3    \* request headers visited by processHeaders
MaxTokLen == 3     \* decoded length of a bearer token, in bytes
NowSec == 2        \* wall clock of the request, seconds after the Unix epoch
MaxEpoch == 1      \* current epoch of the network snapshot
MaxEpochDur == 2   \* value of the EpochDuration network parameter
MaxMsPerBlock == 2 \* ms-per-block of the network snapshot

(***************************************************************************)
(* Program constants.                                                      *)
(***************************************************************************)
StatusOK == 200
StatusBadRequest == 400
StatusNotFound == 404
StatusInternalServerError == 500
MsPerSecond == 1000

NoBody == [ObjectID |-> "", ContainerID |-> "", written |-> FALSE]

\* cid.ID.Parse of the SDK: the identifiers that parse.
ValidCIDs == {"cnrA"}
CIDs == ValidCIDs \cup {"", "not-a-cid"}
ObjectIDs == {"oidA", "oidB"}

(***************************************************************************)
(* Bearer token sources.  An encoded token is [ok64, n, json]: whether the *)
(* text is valid standard base64, the number of bytes it decodes to, and   *)
(* whether those bytes are the JSON of a bearer token.                     *)
(***************************************************************************)
NoValue == [present |-> FALSE]
Encoded(ok64, n, json) == [present |-> TRUE, ok64 |-> ok64, n |-> n, json |-> json]
BearerValues ==
    {Encoded(FALSE, 0, FALSE)}
        \cup {Encoded(TRUE, n, FALSE) : n \in 0..MaxTokLen}
        \cup {Encoded(TRUE, n, TRUE) : n \in 2..MaxTokLen}
\* The Authorization header: absent, another scheme, or "Bearer " and a value.
AuthHeaders ==
    {[present |-> FALSE, bearer |-> FALSE, val |-> NoValue],
     [present |-> TRUE, bearer |-> FALSE, val |-> NoValue]}
        \cup {[present |-> TRUE, bearer |-> TRUE, val |-> v] : v \in BearerValues}
Cookies == {NoValue} \cup BearerValues

\* base64.StdEncoding.EncodedLen / DecodedLen (padded encoding).
EncodedLen(n) == ((n + 2) \div 3) * 4
DecodedLen(m) == (m \div 4) * 3

\* tokens.ReadBearer: the result code and the bytes written to dst.
\* dst is [len, n, json]: len bytes allocated, the first n decoded, the rest 0.
ReadBearer(hdr) ==
    LET b64 == IF hdr.auth.present /\ hdr.auth.bearer THEN hdr.auth.val ELSE hdr.cookie
    IN  IF ~b64.present THEN [code |-> 0, dst |-> [len |-> 0, n |-> 0, json |-> FALSE]]
        ELSE IF ~b64.ok64
             THEN [code |-> -1, dst |-> [len |-> 0, n |-> 0, json |-> FALSE]]
             ELSE [code |-> 1,
                   dst |-> [len |-> DecodedLen(EncodedLen(b64.n)), n |-> b64.n,
                            json |-> b64.json]]

\* token.BearerToken.UnmarshalJSON accepts the JSON of a token and nothing after it.
UnmarshalJSONOk(dst) == dst.json /\ dst.len = dst.n

(***************************************************************************)
(* Multipart bodies: a part is [form, file], its form name and filename.   *)
(***************************************************************************)
FormNames == {"", "file"}
FileNames == {"", "a.txt"}
Parts == [form : FormNames, file : FileNames]
SeqsUpTo(S, n) == UNION {[1..k -> S] : k \in 0..n}
Usable(p) == p.form # "" /\ p.file # ""

(***************************************************************************)
(* Header values and their parsers.                                        *)
(***************************************************************************)
Val(k, n) == [k |-> k, n |-> n]
EmptyVal == Val("empty", 0)
\* time.ParseDuration, in milliseconds: "0" is a duration, other integers are not.
ParseDuration(v) ==
    IF v.k = "dur" THEN [ok |-> TRUE, d |-> v.n]
    ELSE IF v.k = "int" /\ v.n = 0 THEN [ok |-> TRUE, d |-> 0]
    ELSE [ok |-> FALSE, d |-> 0]
\* strconv.ParseInt(s, 10, 64)
ParseInt(v) == IF v.k = "int" THEN [ok |-> TRUE, n |-> v.n] ELSE [ok |-> FALSE, n |-> 0]
\* time.Parse(time.RFC3339, s): the instant in seconds
ParseRFC3339(v) == IF v.k = "rfc" THEN [ok |-> TRUE, t |-> v.n] ELSE [ok |-> FALSE, t |-> 0]
NowMs == NowSec * MsPerSecond

(***************************************************************************)
(* Request headers as VisitAll delivers them: [pfx, key, val], where pfx   *)
(* says whether the name starts with utils.UserAttributeHeaderPrefix and   *)
(* key is the name with that prefix cut (the whole name when pfx is        *)
(* FALSE).                                                                 *)
(***************************************************************************)
ExpirationRFC3339Attr == "__NEOFS__EXPIRATION_RFC3339"
ExpirationTimestampAttr == "__NEOFS__EXPIRATION_TIMESTAMP"
ExpirationDurationAttr == "__NEOFS__EXPIRATION_DURATION"
SysAttributePrefix == "__NEOFS__"
SysAttributeExpEpoch == "__NEOFS__EXPIRATION_EPOCH"
AttributeFileName == "FileName"
AttributeTimestamp == "Timestamp"

Hdr(pfx, key, val) == [pfx |-> pfx, key |-> key, val |-> val]
\* The headers a request of the model may carry.  The three expiration forms
\* resolve to different durations: 3000 ms, 2000 ms and 1001 ms.
RFCFuture == Val("rfc", NowSec + 3)
TSFuture == Val("int", NowSec + 2)
DurFuture == Val("dur", 1001)
HeaderPool ==
    {Hdr(TRUE, ExpirationRFC3339Attr, RFCFuture),
     Hdr(TRUE, ExpirationTimestampAttr, TSFuture),
     Hdr(TRUE, ExpirationTimestampAttr, Val("int", NowSec - 1)),
     Hdr(TRUE, ExpirationDurationAttr, DurFuture),
     Hdr(TRUE, ExpirationDurationAttr, EmptyVal),
     Hdr(TRUE, SysAttributeExpEpoch, Val("int", 7)),
     Hdr(TRUE, "Neofs-Expiration-Epoch", Val("int", 9)),
     Hdr(TRUE, AttributeFileName, Val("txt", 0)),
     Hdr(TRUE, "Other", Val("txt", 0)),
     Hdr(TRUE, "Other", Val("dur", 501)),
     Hdr(FALSE, "Content-Type", Val("txt", 0))}

Requests ==
    [cid : CIDs, auth : AuthHeaders, cookie : Cookies,
     parts : SeqsUpTo(Parts, MaxParts), headers : {<<>>},
     defaultTimestamp : {FALSE}]

(***************************************************************************)
(* Initial values of the per-request state.                                *)
(***************************************************************************)
NoDst == [len |-> 0, n |-> 0, json |-> FALSE]
NoObject == [put |-> FALSE]
InitCreator ==
    [cnr |-> "", bearerTokenSet |-> FALSE, bearerToken |-> NoDst,
     payload |-> 0, attrs |-> <<>>]
InitNet ==
    [putCalls |-> 0, putOk |-> FALSE, putObj |-> NoObject,
     infoCalls |-> 0, expireCalls |-> 0, expireDur |-> 0,
     epoch |-> 0, params |-> <<>>, durEpoch |-> 0, msPerBlock |-> 0]
InitPh ==
    [i |-> 1,
     hdr |-> [Key |-> "", Value |-> EmptyVal, SystemPrefixLen |-> 0],
     meta |-> [filename |-> FALSE, timestamp |-> FALSE, expiration |-> FALSE],
     exp |-> [typ |-> 0, typCur |-> 0, dur |-> 0]]
InitResp == [ObjectID |-> "", ContainerID |-> ""]

IdleUpload ==
    /\ req = [cid |-> "", auth |-> [present |-> FALSE, bearer |-> FALSE, val |-> NoValue],
              cookie |-> NoValue, parts |-> <<>>, headers |-> <<>>,
              defaultTimestamp |-> FALSE]
    /\ pc = "idle" /\ fail = FALSE /\ err = "" /\ status = 0 /\ msg = ""
    /\ errCount = 0 /\ body = NoBody /\ resp = InitResp /\ srcPayload = 0
    /\ partPos = 0 /\ drained = FALSE /\ ph = InitPh /\ oc = InitCreator
    /\ net = InitNet
IdleDownload == dl = [pc |-> "idle"]
IdleDetector == det = [pc |-> "idle"]
IdleZip == zp = [pc |-> "idle"]
IdleZipped == zr = [pc |-> "idle"]
IdleReceive == rf = [pc |-> "idle"]
IdleConcurrent == cu = [pc |-> "idle"]

\* failRequest: response.Error(ctx, msg, 400)
FailRequest(m) ==
    /\ status' = StatusBadRequest
    /\ msg' = m
    /\ errCount' = errCount + 1

(***************************************************************************)
(* Uploader.Upload, lines 139-154: context, container binding.             *)
(***************************************************************************)
BindContainer ==
    /\ pc = "start"
    /\ resp' = [resp EXCEPT !.ContainerID = req.cid]
    /\ IF req.cid \in ValidCIDs
       THEN /\ oc' = [oc EXCEPT !.cnr = req.cid]
            /\ pc' = "bearer"
            /\ UNCHANGED <<fail, status, msg, errCount>>
       ELSE /\ fail' = TRUE
            /\ FailRequest("incorrect container ID")
            /\ pc' = "done"
            /\ oc' = oc
    /\ UNCHANGED <<req, err, body, srcPayload, partPos, drained, ph, net, dl, det, zp, zr, rf, cu>>

(***************************************************************************)
(* Uploader.Upload, lines 156-166: bearer token.  First a variant that     *)
(* takes a token that is not base64 for an absent one.                     *)
(***************************************************************************)
ReadBearerTokenLenient ==
    /\ pc = "bearer"
    /\ LET r == ReadBearer(req)
       IN  IF r.code = 1 /\ UnmarshalJSONOk(r.dst)
           THEN /\ oc' = [oc EXCEPT !.bearerTokenSet = TRUE, !.bearerToken = r.dst]
                /\ pc' = "payload"
                /\ UNCHANGED <<fail, status, msg, errCount>>
           ELSE IF r.code = 1
           THEN /\ fail' = TRUE
                /\ FailRequest("incorrect bearer token JSON")
                /\ pc' = "done"
                /\ oc' = oc
           ELSE /\ pc' = "payload"
                /\ UNCHANGED <<fail, status, msg, errCount, oc>>
    /\ UNCHANGED <<req, err, body, resp, srcPayload, partPos, drained, ph, net, dl, det, zp, zr, rf, cu>>

ReadBearerToken ==
    /\ pc = "bearer"
    /\ LET r == ReadBearer(req)
       IN  CASE r.code = -1 ->
                /\ FailRequest("incorrect bearer token header")
                /\ pc' = "done"
                /\ UNCHANGED <<fail, oc>>
             [] r.code = 1 /\ ~UnmarshalJSONOk(r.dst) ->
                \* objectCreator.UseBearerToken writes the failure
                /\ fail' = TRUE
                /\ FailRequest("incorrect bearer token JSON")
                /\ pc' = "done"
                /\ oc' = oc
             [] r.code = 1 /\ UnmarshalJSONOk(r.dst) ->
                /\ oc' = [oc EXCEPT !.bearerTokenSet = TRUE, !.bearerToken = r.dst]
                /\ pc' = "payload"
                /\ UNCHANGED <<fail, status, msg, errCount>>
             [] OTHER ->
                /\ pc' = "payload"
                /\ UNCHANGED <<fail, status, msg, errCount, oc>>
    /\ UNCHANGED <<req, err, body, resp, srcPayload, partPos, drained, ph, net, dl, det, zp, zr, rf, cu>>

(***************************************************************************)
(* initPayloadSource, lines 123-134, one iteration of its loop, and the    *)
(* check of its result at lines 170-173.  The loop has no exit but the     *)
(* error of NextPart: a usable part is recorded and the loop goes on.      *)
(***************************************************************************)
NextPart ==
    /\ pc = "payload"
    /\ partPos' = partPos + 1
    /\ IF partPos + 1 > Len(req.parts)
       THEN \* reader.NextPart returns io.EOF
            /\ err' = "EOF"
            /\ fail' = TRUE
            /\ FailRequest("receive multipart/form")
            /\ pc' = "done"
            /\ srcPayload' = srcPayload
       ELSE /\ srcPayload' = IF Usable(req.parts[partPos + 1]) THEN partPos + 1
                             ELSE srcPayload
            /\ pc' = "payload"
            /\ UNCHANGED <<err, fail, status, msg, errCount>>
    /\ UNCHANGED <<req, body, resp, drained, ph, oc, net, dl, det, zp, zr, rf, cu>>

InitUpload ==
    /\ req \in Requests
    /\ pc = "start" /\ fail = FALSE /\ err = "" /\ status = 0 /\ msg = ""
    /\ errCount = 0 /\ body = NoBody /\ resp = InitResp /\ srcPayload = 0
    /\ partPos = 0 /\ drained = FALSE /\ ph = InitPh /\ oc = InitCreator
    /\ net = InitNet
    /\ IdleDownload /\ IdleDetector /\ IdleZip /\ IdleZipped
    /\ IdleReceive /\ IdleConcurrent

NextUpload == BindContainer \/ ReadBearerToken \/ NextPart
SpecUpload == InitUpload /\ [][NextUpload]_vars

(***************************************************************************)
(* processHeaders, lines 246-335: the callback of VisitAll for one header. *)
(***************************************************************************)
expirationRFC3339 == 1
expirationTimestamp == 2
expirationDuration == 3

\* lines 266-273: the expiration form a key names (0: none)
ExpirationTypeOf(key) ==
    CASE key = ExpirationRFC3339Attr -> expirationRFC3339
      [] key = ExpirationTimestampAttr -> expirationTimestamp
      [] key = ExpirationDurationAttr -> expirationDuration
      [] OTHER -> 0

\* calcSystemPrefixLen: the switch compares the whole key with the alias.
calcSystemPrefixLen(key) == IF key \in {"Neofs-", "NEOFS-", "neofs-"} THEN 6 ELSE 0

\* lines 280-307: the text the parsers are given is hdr.Value, which the
\* callback assigns at line 332 only, on the path of the other attributes.
ParsedValue(hdr, h) == hdr.Value

\* lines 280-307: [ok, dur, err] from the form typ, the text v and the duration
\* recorded so far.
ParseExpiration(typ, v, oldDur) ==
    LET r == CASE typ = expirationRFC3339 ->
                    LET t == ParseRFC3339(v)
                    IN  [ok |-> t.ok,
                         dur |-> IF t.ok THEN t.t * MsPerSecond - NowMs ELSE oldDur]
               [] typ = expirationTimestamp ->
                    LET t == ParseInt(v)
                    IN  [ok |-> t.ok,
                         dur |-> IF t.ok THEN t.n * MsPerSecond - NowMs ELSE oldDur]
               [] OTHER ->
                    LET d == ParseDuration(v) IN [ok |-> d.ok, dur |-> d.d]
    IN  IF ~r.ok THEN [ok |-> FALSE, dur |-> r.dur, err |-> "parse"]
        ELSE IF r.dur <= 0
             THEN [ok |-> FALSE, dur |-> r.dur, err |-> "expiration time not from the future"]
             ELSE [ok |-> TRUE, dur |-> r.dur, err |-> ""]

\* objectCreator.WriteHeader, lines 123-127: the key stored for a header.
\* With a system prefix the key is the prefix and what follows the alias, in
\* upper case with "_" for "-"; the alias is the whole key, so nothing follows.
StoredKey(hdr) == IF hdr.SystemPrefixLen > 0 THEN SysAttributePrefix ELSE hdr.Key

\* objectCreator.WriteHeader, lines 129-136
MetaAfter(meta, key) ==
    [filename |-> meta.filename \/ key = AttributeFileName,
     timestamp |-> meta.timestamp \/ key = AttributeTimestamp,
     expiration |-> meta.expiration \/ key = SysAttributeExpEpoch]

Attr(k, v) == [key |-> k, val |-> v]

VisitHeader ==
    /\ pc = "headers"
    /\ ph.i <= Len(req.headers)
    /\ LET h == req.headers[ph.i]
           typCur == ExpirationTypeOf(h.key)
       IN  CASE fail \/ h.val = EmptyVal ->
                /\ ph' = [ph EXCEPT !.i = @ + 1]
                /\ UNCHANGED <<fail, err, status, msg, errCount, oc>>
             [] ~fail /\ h.val # EmptyVal /\ ~h.pfx ->
                /\ ph' = [ph EXCEPT !.i = @ + 1, !.hdr.Key = h.key]
                /\ UNCHANGED <<fail, err, status, msg, errCount, oc>>
             [] ~fail /\ h.val # EmptyVal /\ h.pfx /\ typCur > 0
                    /\ (ph.meta.expiration \/ typCur < ph.exp.typ) ->
                /\ ph' = [ph EXCEPT !.i = @ + 1, !.hdr.Key = h.key,
                                    !.exp.typCur = typCur]
                /\ UNCHANGED <<fail, err, status, msg, errCount, oc>>
             [] ~fail /\ h.val # EmptyVal /\ h.pfx /\ typCur > 0
                    /\ ~ph.meta.expiration /\ typCur >= ph.exp.typ ->
                LET r == ParseExpiration(typCur, ParsedValue(ph.hdr, h), ph.exp.dur)
                IN  /\ ph' = [ph EXCEPT !.i = @ + 1, !.hdr.Key = h.key,
                                        !.exp.typCur = typCur, !.exp.typ = typCur,
                                        !.exp.dur = r.dur]
                    /\ fail' = ~r.ok
                    /\ err' = r.err
                    /\ IF r.ok THEN UNCHANGED <<status, msg, errCount>>
                       ELSE FailRequest("problem with expiration header, try expiration in epoch")
                    /\ oc' = oc
             [] OTHER ->
                LET hdr == [Key |-> h.key, Value |-> h.val,
                            SystemPrefixLen |-> calcSystemPrefixLen(h.key)]
                    key == StoredKey(hdr)
                IN  /\ ph' = [ph EXCEPT !.i = @ + 1, !.hdr = hdr, !.exp.typCur = 0,
                                        !.meta = MetaAfter(ph.meta, key)]
                    /\ oc' = [oc EXCEPT !.attrs = Append(@, Attr(key, h.val))]
                    /\ UNCHANGED <<fail, err, status, msg, errCount>>
    /\ UNCHANGED <<req, pc, body, resp, srcPayload, partPos, drained, net, dl, det, zp, zr, rf, cu>>

(***************************************************************************)
(* objectCreator.ExpireAfter, neofs.go lines 149-201.                      *)
(***************************************************************************)
Param(k, v) == [key |-> k, val |-> v]
\* the parameter lists of a network configuration
NetParams ==
    {<<>>, <<Param("MaxObjectSize", 9)>>}
        \cup {<<Param("MaxObjectSize", 9), Param("EpochDuration", v)>> :
                    v \in 1..MaxEpochDur}
        \cup {<<Param("EpochDuration", v), Param("MaxObjectSize", 9)>> :
                    v \in 1..MaxEpochDur}
Snapshots == [epoch : 0..MaxEpoch, params : NetParams, msPerBlock : 0..MaxMsPerBlock]

RECURSIVE IterateDurEpoch(_, _)
\* lines 176-192: the value of the first EpochDuration parameter, 0 without one
IterateDurEpoch(params, i) ==
    IF i > Len(params) THEN 0
    ELSE IF params[i].key = "EpochDuration" THEN params[i].val
    ELSE IterateDurEpoch(params, i + 1)

\* line 197: CurrentEpoch + uint64(ms) * durEpoch / uint64(MsPerBlock), for a
\* divisor that is not 0 (the values of the model stay far below 2^64)
ExpirationEpoch(epoch, durMs, durEpoch, msPerBlock) ==
    epoch + (durMs * durEpoch) \div msPerBlock

(***************************************************************************)
(* Uploader.Upload lines 175-178: the payload source is handed over.       *)
(***************************************************************************)
\* a Close that leaves the rest of the part unread
PartCloseKeeps(d) == d
\* line 175, defer ctx.srcPayload.Close(): multipart.Part.Close reads the
\* rest of the part to io.Discard; runs when Upload returns past this line
PartClose(d) == TRUE

ReadPayloadFrom ==
    /\ pc = "bound"
    /\ oc' = [oc EXCEPT !.payload = srcPayload]
    /\ ph' = InitPh
    /\ pc' = "headers"
    /\ UNCHANGED <<req, fail, err, status, msg, errCount, body, resp, srcPayload,
                   partPos, drained, net, dl, det, zp, zr, rf, cu>>

\* lines 347-353: the default attributes
DefaultAttrs(meta) ==
    (IF ~meta.timestamp /\ req.defaultTimestamp
        THEN <<Attr(AttributeTimestamp, Val("int", NowSec))>> ELSE <<>>)
    \o (IF ~meta.filename
        THEN <<Attr(AttributeFileName, Val("txt", srcPayload))>> ELSE <<>>)

(***************************************************************************)
(* processHeaders, lines 337-354: after the iteration.                     *)
(***************************************************************************)
FinishHeaders ==
    /\ pc = "headers"
    /\ ph.i > Len(req.headers)
    /\ \/ \* a failure was recorded during the iteration
          /\ fail
          /\ pc' = "close"
          /\ UNCHANGED <<fail, status, msg, errCount, oc, net, drained>>
       \/ \* the expiration epoch was written directly
          /\ ~fail /\ ph.meta.expiration
          /\ oc' = [oc EXCEPT !.attrs = @ \o DefaultAttrs(ph.meta)]
          /\ pc' = "close"
          /\ UNCHANGED <<fail, status, msg, errCount, net, drained>>
       \/ \* ExpireAfter: no connection, or the network info cannot be read
          /\ ~fail /\ ~ph.meta.expiration
          /\ \E infoAsked \in BOOLEAN :
                net' = [net EXCEPT !.expireCalls = @ + 1, !.expireDur = ph.exp.dur,
                                   !.infoCalls = IF infoAsked THEN @ + 1 ELSE @]
          /\ fail' = TRUE
          /\ FailRequest("problem with expiration header, try expiration in epoch")
          /\ pc' = "close"
          /\ UNCHANGED <<oc, drained>>
       \/ \* ExpireAfter with a snapshot of the network
          /\ ~fail /\ ~ph.meta.expiration
          /\ \E sn \in Snapshots :
                LET durEpoch == IterateDurEpoch(sn.params, 1)
                IN  /\ net' = [net EXCEPT !.expireCalls = @ + 1,
                                          !.expireDur = ph.exp.dur,
                                          !.infoCalls = @ + 1,
                                          !.epoch = sn.epoch,
                                          !.params = sn.params,
                                          !.durEpoch = durEpoch,
                                          !.msPerBlock = sn.msPerBlock]
                    /\ IF sn.msPerBlock = 0
                       THEN \* integer division by zero: the handler panics,
                            \* the deferred call of line 175 runs
                            /\ pc' = "panic"
                            /\ oc' = oc
                            /\ drained' = PartClose(drained)
                       ELSE /\ pc' = "close"
                            /\ drained' = drained
                            /\ oc' = [oc EXCEPT !.attrs =
                                  Append(@, Attr(SysAttributeExpEpoch,
                                      Val("int", ExpirationEpoch(sn.epoch, ph.exp.dur,
                                                                 durEpoch, sn.msPerBlock))))
                                  \o DefaultAttrs(ph.meta)]
          /\ UNCHANGED <<fail, status, msg, errCount>>
    /\ UNCHANGED <<req, err, body, resp, srcPayload, partPos, ph, dl, det, zp, zr, rf, cu>>

(***************************************************************************)
(* objectCreator.Close, neofs.go lines 46-78, and its check at             *)
(* Uploader.Upload lines 184-188.                                          *)
(***************************************************************************)
\* a variant that always takes the default owner
OwnerDefault(tokenSet) == "default"
\* lines 47-51: the issuer of the accepted token, else the default owner
OwnerOf(tokenSet) == IF tokenSet THEN "issuer" ELSE "default"

Close ==
    /\ pc = "close"
    /\ \E ok \in BOOLEAN, id \in ObjectIDs :
          /\ net' = [net EXCEPT
                !.putCalls = @ + 1,
                !.putOk = ok,
                !.putObj = [put |-> TRUE, cnr |-> oc.cnr,
                            owner |-> OwnerOf(oc.bearerTokenSet),
                            attrs |-> oc.attrs, payload |-> oc.payload,
                            withBearer |-> oc.bearerTokenSet]]
          /\ resp' = IF ok THEN [resp EXCEPT !.ObjectID = id] ELSE resp
          /\ fail' = (fail \/ ~ok)
    /\ IF fail'
       THEN /\ FailRequest("store file in NeoFS failed")
            /\ pc' = "done"
            /\ drained' = PartClose(drained)
       ELSE /\ pc' = "respond"
            /\ UNCHANGED <<status, msg, errCount, drained>>
    /\ UNCHANGED <<req, err, body, srcPayload, partPos, ph, oc, dl, det, zp, zr, rf, cu>>

(***************************************************************************)
(* Uploader.Upload lines 190-211: the response, the drain, the status.     *)
(***************************************************************************)
FormResponse ==
    /\ pc = "respond"
    /\ \/ \* the response is encoded, the payload source drained at line 206
          /\ body' = [ObjectID |-> resp.ObjectID, ContainerID |-> resp.ContainerID,
                      written |-> TRUE]
          /\ drained' = PartClose(TRUE)
          /\ status' = StatusOK
          /\ UNCHANGED <<fail, err, msg, errCount>>
       \/ \* lines 195-198: the encoder reports an error
          /\ err' = "encode"
          /\ fail' = TRUE
          /\ FailRequest("form response failed")
          /\ drained' = PartClose(drained)
          /\ body' = body
    /\ pc' = "done"
    /\ UNCHANGED <<req, resp, srcPayload, partPos, ph, oc, net, dl, det, zp, zr, rf, cu>>

(***************************************************************************)
(* The context Upload holds at line 175, once a payload source is bound:   *)
(* a valid container, the token accepted or absent, no failure.            *)
(***************************************************************************)
GoodToken == Encoded(TRUE, 3, TRUE)  \* decodes without padding
BoundRequests ==
    [cid : ValidCIDs,
     auth : {[present |-> FALSE, bearer |-> FALSE, val |-> NoValue]},
     cookie : {NoValue, GoodToken},
     parts : {<<[form |-> "file", file |-> "a.txt"]>>},
     headers : SeqsUpTo(HeaderPool, MaxHeaders),
     defaultTimestamp : BOOLEAN]

InitHeaders ==
    /\ req \in BoundRequests
    /\ pc = "bound" /\ fail = FALSE /\ err = "" /\ status = 0 /\ msg = ""
    /\ errCount = 0 /\ body = NoBody
    /\ resp = [ObjectID |-> "", ContainerID |-> req.cid]
    /\ srcPayload = 1 /\ partPos = 1 /\ drained = FALSE /\ ph = InitPh
    /\ oc = [InitCreator EXCEPT !.cnr = req.cid,
                                !.bearerTokenSet = req.cookie.present,
                                !.bearerToken = ReadBearer(req).dst]
    /\ net = InitNet
    /\ IdleDownload /\ IdleDetector /\ IdleZip /\ IdleZipped
    /\ IdleReceive /\ IdleConcurrent

NextHeaders == ReadPayloadFrom \/ VisitHeader \/ FinishHeaders \/ Close \/ FormResponse
SpecHeaders == InitHeaders /\ [][NextHeaders]_vars

(***************************************************************************)
(* Claims about Upload.                                                    *)
(***************************************************************************)
\* the bearer value ReadBearer selects: the Authorization header when it
\* carries the Bearer scheme, the cookie otherwise
SelectedBearer == IF req.auth.present /\ req.auth.bearer THEN req.auth.val ELSE req.cookie
BearerMalformed == SelectedBearer.present /\ ~(SelectedBearer.ok64 /\ SelectedBearer.json)
\* absent, or the base64 of a token's JSON (here one encoded without padding)
BearerAbsentOrWellFormed ==
    \/ ~SelectedBearer.present
    \/ SelectedBearer.ok64 /\ SelectedBearer.json /\ SelectedBearer.n % 3 = 0
HasUsablePart == \E i \in 1..Len(req.parts) : Usable(req.parts[i])

\* C1: an upload with a valid container ID, an absent or well-formed bearer
\* token, a body with a part that has a field name and a filename, no invalid
\* expiration header and no failing put ends committed: PutObject was invoked
\* exactly once and the response is 200 with the object ID of the put and the
\* container ID of the request.
C1_UploadCommits ==
    (/\ pc = "done"
     /\ req.cid \in ValidCIDs
     /\ BearerAbsentOrWellFormed
     /\ HasUsablePart
     /\ (net.putCalls > 0 => net.putOk))
    => (/\ status = StatusOK
        /\ net.putCalls = 1
        /\ body = [ObjectID |-> resp.ObjectID, ContainerID |-> req.cid,
                   written |-> TRUE]
        /\ resp.ObjectID \in ObjectIDs)

C3_MalformedBearerRejected ==
    BearerMalformed =>
        /\ partPos = 0 /\ srcPayload = 0 /\ oc.payload = 0
        /\ oc.attrs = <<>>
        /\ net.putCalls = 0
        /\ ~oc.bearerTokenSet
        /\ pc \in {"start", "bearer", "done"}
        /\ (pc = "done" => status = StatusBadRequest /\ errCount = 1)
\* C3 witness: a request with a valid container and a malformed token was
\* answered at the bearer stage.
C3_Witness ==
    /\ pc = "done" /\ BearerMalformed /\ req.cid \in ValidCIDs
    /\ status = StatusBadRequest
    /\ msg \in {"incorrect bearer token header", "incorrect bearer token JSON"}

HeadersWithKey(k) == {i \in 1..Len(req.headers) : req.headers[i].pfx /\ req.headers[i].key = k}
Carries(h) == \E i \in 1..Len(req.headers) : req.headers[i] = h
NoKey(k) == HeadersWithKey(k) = {}
OnlyValidForms ==
    \A i \in 1..Len(req.headers) :
        ExpirationTypeOf(req.headers[i].key) > 0 =>
            req.headers[i].val \in {RFCFuture, TSFuture, DurFuture}
HeadersProcessed == pc \in {"close", "respond", "done", "panic"}
HandedToExpireAfter(d) == net.expireCalls = 1 /\ net.expireDur = d

CeilDiv(a, b) == (a + b - 1) \div b
HasAttr(attrs, a) == \E i \in 1..Len(attrs) : attrs[i] = a

MaxReads == 3      \* ReadNext calls of one request
MaxMatches == 2    \* objects a search may match

byID == 1
byAttr == 2
byFile == 3

OIDs == {"oidA", "not-an-oid"}
ValidOIDs == {"oidA"}

\* ResRead.WaitingPayload, WaitingFilename, WaitingOwner, WaitingHeaders
WaitingPayload(res) == ~res.head
WaitingFilename(res) == ~res.head
WaitingOwner(res) == res.selector # byFile
WaitingHeaders(res) == res.selector # byFile

\* ObjectReader.ByAttribute / ByFilenamePrefix as the interface documents them:
\* -1 if the selection failed or several objects satisfy, 0 if none, 1 otherwise
SelectionResult(searchOk, matches) ==
    IF ~searchOk \/ matches > 1 THEN -1 ELSE IF matches = 0 THEN 0 ELSE 1

DownloadRequests ==
    [cid : CIDs, auth : {[present |-> FALSE, bearer |-> FALSE, val |-> NoValue]},
     cookie : Cookies, selector : {byID, byAttr, byFile}, head : BOOLEAN, oid : OIDs]

\* the zero ResRead of line 351 with reqCtx set at line 353
NewResRead == [head |-> FALSE, selector |-> 0, status |-> 0]

InitDl(r) ==
    [pc |-> "start", req |-> r, status |-> 0, msg |-> "", errCount |-> 0,
     headers |-> {}, bodySet |-> FALSE,
     res |-> NewResRead,
     cnr |-> "", bearerTokenSet |-> FALSE, selected |-> FALSE, selRes |-> 2,
     headCalled |-> FALSE, readCalls |-> 0, delivered |-> FALSE,
     askedPayload |-> FALSE]

\* failRequestWithCode: response.Error(ctx, msg, code)
DlFail(d, m, code) ==
    [d EXCEPT !.status = code, !.msg = m, !.errCount = @ + 1, !.pc = "done"]
\* failRequest
DlFailRequest(d, m) == DlFail(d, m, StatusBadRequest)
\* failNotFound
DlFailNotFound(d) == DlFail(d, "object not found", StatusNotFound)

\* lines 283-294
DlFromContainer ==
    /\ dl.pc = "start"
    /\ dl' = IF dl.req.cid \in ValidCIDs
             THEN [dl EXCEPT !.cnr = dl.req.cid, !.pc = "bearer"]
             ELSE DlFailRequest(dl, "incorrect container ID")
    /\ UNCHANGED <<upVars, det, zp, zr, rf, cu>>

\* lines 296-306
DlReadBearerToken ==
    /\ dl.pc = "bearer"
    /\ LET r == ReadBearer(dl.req)
       IN  dl' = CASE r.code = -1 -> DlFailRequest(dl, "incorrect bearer token header")
                   [] r.code = 1 /\ ~UnmarshalJSONOk(r.dst) ->
                        DlFailRequest(dl, "incorrect bearer token JSON")
                   [] r.code = 1 /\ UnmarshalJSONOk(r.dst) ->
                        [dl EXCEPT !.bearerTokenSet = TRUE, !.pc = "select"]
                   [] OTHER -> [dl EXCEPT !.pc = "select"]
    /\ UNCHANGED <<upVars, det, zp, zr, rf, cu>>

\* lines 324-331 and 335-342: what read does with a selection result
\* a variant that reads on when nothing was found
AfterSelectionLenient(d, r, failMsg) ==
    CASE r = -1 -> DlFailRequest(d, failMsg)
      [] OTHER -> [d EXCEPT !.selected = TRUE, !.pc = "head"]
AfterSelection(d, r, failMsg) ==
    CASE r = -1 -> DlFailRequest(d, failMsg)
      [] r = 0 -> DlFailNotFound(d)
      [] OTHER -> [d EXCEPT !.selected = TRUE, !.pc = "head"]

\* lines 308-343
DlSelect ==
    /\ dl.pc = "select"
    /\ \/ /\ dl.req.selector = byID
          /\ dl' = IF dl.req.oid \in ValidOIDs
                   THEN [dl EXCEPT !.selected = TRUE, !.pc = "head",
                                   !.headers = @ \cup {<<"X-Object-Id", dl.req.oid>>}]
                   ELSE DlFailRequest(dl, "incorrect object ID")
       \/ /\ dl.req.selector = byAttr
          /\ \E searchOk \in BOOLEAN, matches \in 0..MaxMatches :
                LET r == SelectionResult(searchOk, matches)
                IN  dl' = AfterSelection([dl EXCEPT !.selRes = r], r,
                                         "select by attribute failed")
       \/ /\ dl.req.selector = byFile
          /\ \E searchOk \in BOOLEAN, matches \in 0..MaxMatches :
                LET r == SelectionResult(searchOk, matches)
                IN  dl' = AfterSelection([dl EXCEPT !.selRes = r], r,
                                         "select by filename prefix failed")
    /\ UNCHANGED <<upVars, det, zp, zr, rf, cu>>

\* lines 345-353
DlHead ==
    /\ dl.pc = "head"
    /\ dl' = [dl EXCEPT !.headCalled = dl.req.head, !.res = NewResRead, !.pc = "read"]
    /\ UNCHANGED <<upVars, det, zp, zr, rf, cu>>

(***************************************************************************)
(* One iteration of the loop of lines 355-367.  The ObjectReader is not    *)
(* part of the sources: ReadNext is taken to deliver the object through    *)
(* the ResRead it is given (asking WaitingOwner and WaitingPayload before  *)
(* WriteOwner and HandlePayload), and then to report EOF; or to fail.      *)
(***************************************************************************)
DlReadNext ==
    /\ dl.pc = "read"
    /\ dl.readCalls < MaxReads
    /\ LET d == [dl EXCEPT !.readCalls = @ + 1,
                           !.askedPayload = @ \/ WaitingPayload(dl.res)]
       IN  \/ /\ ~dl.delivered
              /\ dl' = [d EXCEPT
                    !.delivered = TRUE,
                    !.headers = @ \cup (IF WaitingOwner(dl.res)
                                        THEN {<<"X-Owner-Id", "owner">>} ELSE {})
                                  \cup (IF WaitingPayload(dl.res)
                                        THEN {<<"Content-Length", "size">>} ELSE {}),
                    !.bodySet = WaitingPayload(dl.res)]
           \/ /\ dl.delivered
              \* ResRead.EOF; line 370
              /\ dl' = [d EXCEPT !.res.status = 1, !.pc = "done",
                                 !.headers = @ \cup {<<"X-Container-Id", dl.req.cid>>}]
           \/ \* ResRead.FailCommonAPI
              dl' = DlFailRequest([d EXCEPT !.res.status = 2], "read object failed")
           \/ \* ResRead.NotFound
              dl' = DlFailNotFound([d EXCEPT !.res.status = 3])
    /\ UNCHANGED <<upVars, det, zp, zr, rf, cu>>

InitRead ==
    /\ IdleUpload /\ IdleDetector /\ IdleZip /\ IdleZipped
    /\ IdleReceive /\ IdleConcurrent
    /\ \E r \in DownloadRequests : dl = InitDl(r)

NextRead == DlFromContainer \/ DlReadBearerToken \/ DlSelect \/ DlHead \/ DlReadNext
SpecRead == InitRead /\ [][NextRead]_vars

\* the bearer stage of read lets the request pass
DlBearerPasses == ReadBearer(dl.req).code = 0 \/ dl.bearerTokenSet

\* C6: in Downloader.read a malformed container ID, a malformed object ID or a
\* selection result of -1 yields status 400, a selection result of 0 yields
\* status 404, and in all these cases ReadNext is never invoked; only a
\* successful selection proceeds to reading.
C6_SelectionFailuresStopRead ==
    /\ (dl.readCalls > 0 =>
            /\ dl.req.cid \in ValidCIDs
            /\ dl.selected
            /\ (dl.req.selector = byID => dl.req.oid \in ValidOIDs)
            /\ (dl.req.selector # byID => dl.selRes = 1))
    /\ (dl.pc = "done" /\ dl.req.cid \notin ValidCIDs =>
            dl.status = StatusBadRequest /\ dl.readCalls = 0)
    /\ (dl.pc = "done" /\ dl.req.cid \in ValidCIDs /\ DlBearerPasses
            /\ dl.req.selector = byID /\ dl.req.oid \notin ValidOIDs =>
            dl.status = StatusBadRequest /\ dl.readCalls = 0)
    /\ (dl.selRes = -1 =>
            dl.pc = "done" /\ dl.status = StatusBadRequest /\ dl.readCalls = 0)
    /\ (dl.selRes = 0 =>
            dl.pc = "done" /\ dl.status = StatusNotFound /\ dl.readCalls = 0)
\* C6 witness: a by-attribute request answered 404 without any read.
C6_Witness ==
    /\ dl.pc = "done" /\ dl.req.selector = byAttr /\ dl.selRes = 0
    /\ dl.status = StatusNotFound /\ dl.readCalls = 0

\* C7: for a request handled with head = true, the ResRead passed to ReadNext
\* never asks for the payload (WaitingPayload reports false), HandlePayload is
\* not reached and no body stream or Content-Length is attached.
C7_HeadNeverReadsPayload ==
    (dl.pc # "idle" /\ dl.req.head /\ dl.readCalls > 0) =>
        /\ ~WaitingPayload(dl.res)
        /\ ~dl.askedPayload
        /\ ~dl.bodySet
        /\ \A h \in dl.headers : h[1] # "Content-Length"

(***************************************************************************)
(* The content-type detector (detector, errReader).  The payload of        *)
(* length len is the byte sequence 1, 2, ..., len, so that a byte lost,    *)
(* doubled or moved shows; 0 is a byte of the fresh buffer.                *)
(***************************************************************************)
contentTypeDetectSize == 512
MaxOver == 2       \* how far a payload may exceed the detect size

Min(a, b) == IF a < b THEN a ELSE b
Payload(len) == [i \in 1..len |-> i]
PayloadLens ==
    {0, 1, contentTypeDetectSize - 1}
        \cup {contentTypeDetectSize + k : k \in 0..MaxOver}
\* the buffer sizes a consumer reads with
BufSizes == {1, contentTypeDetectSize, 4096}
\* what a Read of the source may return for a buffer of cap bytes with rem
\* bytes left: a short read or all that fits
ReadSizes(cap, rem) == {n \in {1, Min(cap, rem) - 1, Min(cap, rem)} : n >= 1}

\* newDetector, SetReader
InitDet(len) ==
    [pc |-> "start", len |-> len, srcOff |-> 0, srcReads |-> 0,
     data |-> [i \in 1..contentTypeDetectSize |-> 0],
     err |-> "", contentType |-> <<>>, firstRead |-> 0, done |-> FALSE,
     mrStage |-> 1, offset |-> 0, out |-> <<>>, outErr |-> "",
     waiter |-> "none"]

\* http.DetectContentType looks at no more than the first 512 bytes; the
\* classes are left uninterpreted: the class of a prefix is the prefix.
DetectContentType(data) == SubSeq(data, 1, Min(Len(data), 512))

\* a variant that keeps the whole buffer
NotTruncated(data, n) == data
\* detector.Detect line 88: the buffer after a read of n bytes
Truncated(data, n) == SubSeq(data, 1, n)

\* the buffer after the source copied its next n bytes into it
Filled(data, off, n) ==
    [i \in 1..Len(data) |-> IF i <= n THEN off + i ELSE data[i]]

\* detector.Detect, lines 82-91
Detect ==
    /\ det.pc = "start"
    /\ \E n \in {0} \cup ReadSizes(contentTypeDetectSize, det.len),
          e \in {"", "EOF", "unexpected"} :
          /\ n <= det.len
          \* a reader reports EOF with its last bytes or after them, and does
          \* not return 0 bytes without an error
          /\ (e = "EOF" => n = det.len)
          /\ (e = "" => n > 0)
          /\ LET buf == Filled(det.data, 0, n)
                 d == [det EXCEPT !.srcOff = n, !.srcReads = 1, !.firstRead = n,
                                  !.pc = "detected"]
             IN  IF e = "unexpected"
                 THEN det' = [d EXCEPT !.data = buf, !.err = e]
                 ELSE det' = [d EXCEPT !.data = Truncated(buf, n),
                                       !.contentType = DetectContentType(Truncated(buf, n)),
                                       !.done = TRUE]
    /\ UNCHANGED <<upVars, dl, zp, zr, rf, cu>>

\* detector.Wait, line 75: a consumer starts to wait ...
WaitCall ==
    /\ det.pc # "idle"
    /\ det.waiter = "none"
    /\ det' = [det EXCEPT !.waiter = "waiting"]
    /\ UNCHANGED <<upVars, dl, zp, zr, rf, cu>>
\* ... and returns once the channel is closed
WaitReturn ==
    /\ det.pc # "idle"
    /\ det.waiter = "waiting"
    /\ det.done
    /\ det' = [det EXCEPT !.waiter = "returned"]
    /\ UNCHANGED <<upVars, dl, zp, zr, rf, cu>>

(***************************************************************************)
(* One Read of the stream detector.MultiReader returns:                    *)
(* io.MultiReader(newReader(d.data, d.err), d.Reader).                     *)
(***************************************************************************)
\* errReader.Read, lines 56-66: [n, err] for a buffer of cap bytes
ErrReaderRead(data, e, off, cap) ==
    IF off >= Len(data) THEN [n |-> 0, err |-> "EOF"]
    ELSE LET n == Min(cap, Len(data) - off)
         IN  [n |-> n, err |-> IF off + n >= Len(data) THEN e ELSE ""]

MultiRead ==
    /\ det.pc = "detected"
    /\ \E cap \in BufSizes :
          LET r == ErrReaderRead(det.data, det.err, det.offset, cap)
          IN  \/ \* the first reader has bytes
                 /\ det.mrStage = 1 /\ r.n > 0
                 /\ det' = [det EXCEPT
                        !.offset = @ + r.n,
                        !.out = @ \o SubSeq(det.data, det.offset + 1, det.offset + r.n),
                        !.outErr = r.err,
                        !.pc = IF r.err = "" THEN "detected" ELSE "failed"]
              \/ \* the first reader is at its end (or was dropped): the source reads
                 /\ det.mrStage = 2 \/ r.n = 0
                 /\ \/ /\ det.srcOff = det.len
                       /\ det' = [det EXCEPT !.mrStage = 2, !.srcReads = @ + 1,
                                             !.pc = "eof"]
                    \/ \E n \in ReadSizes(cap, det.len - det.srcOff), eof \in BOOLEAN :
                          /\ det.srcOff < det.len
                          /\ n <= det.len - det.srcOff
                          /\ (eof => n = det.len - det.srcOff)
                          /\ det' = [det EXCEPT
                                 !.mrStage = 2, !.srcReads = @ + 1,
                                 !.srcOff = @ + n,
                                 !.out = @ \o [i \in 1..n |-> det.srcOff + i],
                                 !.pc = IF eof THEN "eof" ELSE "detected"]
    /\ UNCHANGED <<upVars, dl, zp, zr, rf, cu>>

InitDetect ==
    /\ IdleUpload /\ IdleDownload /\ IdleZip /\ IdleZipped
    /\ IdleReceive /\ IdleConcurrent
    /\ \E len \in PayloadLens : det = InitDet(len)

NextDetect == Detect \/ WaitCall \/ WaitReturn \/ MultiRead
SpecDetect == InitDetect /\ [][NextDetect]_vars

IsPrefix(s, t) == Len(s) <= Len(t) /\ SubSeq(t, 1, Len(s)) = s

\* C8: for a payload of any length and any split of it into reads (the source
\* reporting no error but EOF), the stream of MultiReader after Detect yields
\* exactly the bytes of the payload, in order, and Detect classifies the bytes
\* of its single read.
C8_StreamIdentical ==
    (det.pc # "start" /\ det.err = "") =>
        /\ IsPrefix(det.out, Payload(det.len))
        /\ (det.pc = "eof" => det.out = Payload(det.len))
        /\ det.pc # "failed"
        /\ det.contentType = DetectContentType(SubSeq(Payload(det.len), 1, det.firstRead))
        /\ (det.mrStage = 1 => det.srcReads = 1)
\* C8 witness: a payload longer than the detect size was read to its end after
\* a short first read.
C8_Witness ==
    /\ det.pc = "eof" /\ det.err = ""
    /\ det.len > contentTypeDetectSize
    /\ det.firstRead < contentTypeDetectSize
    /\ det.out = Payload(det.len)

\* C9: once Detect has run, a consumer waiting in Wait is released, whatever
\* the outcome of the first read (data, end of stream, or a read error).
C9_WaitReleasedAfterDetect ==
    (det.pc # "start" /\ det.waiter = "waiting") => det.done

(***************************************************************************)
(* Downloader.streamFiles: the objects of a container are fetched one at   *)
(* a time and written as the entries of a zip archive.                     *)
(***************************************************************************)
MaxIds == 3        \* object identifiers handed to streamFiles

TextAttr(k, v) == [key |-> k, val |-> v]
\* the objects of the container: identifier -> attributes
ZipObjectIDs == {"o1", "o2", "o3"}
ObjectAttrs(id) ==
    CASE id = "o1" -> <<TextAttr(AttributeFileName, "a.txt")>>
      [] id = "o2" -> <<TextAttr(AttributeTimestamp, "1")>>
      [] OTHER -> <<TextAttr("Other", "x"), TextAttr(AttributeFileName, "b.txt")>>
\* the payload of an object, as a sequence of bytes that names it
ObjectPayload(id) == <<id, "payload">>

RECURSIVE FirstFilename(_, _)
FirstFilename(attrs, i) ==
    IF i > Len(attrs) THEN ""
    ELSE IF attrs[i].key = AttributeFileName THEN attrs[i].val
    ELSE FirstFilename(attrs, i + 1)
\* a variant that takes the first attribute whatever its key
FirstAttribute(attrs) == IF attrs = <<>> THEN "" ELSE attrs[1].val
\* getFilename, lines 480-488
getFilename(attrs) == FirstFilename(attrs, 1)

\* lines 436-439: the compression method
Compression(zipCompression) == IF zipCompression THEN "Deflate" ELSE "Store"

InitZip(ids, comp) ==
    [pc |-> "fetch", ids |-> ids, zipCompression |-> comp, i |-> 1,
     entries |-> <<>>, closed |-> FALSE, err |-> "",
     obj |-> <<>>, r |-> <<>>, ready |-> FALSE, fetches |-> <<>>,
     cancelled |-> FALSE, handlerAt |-> ""]

\* a variant that records the error and goes on
ZipReturnGoesOn(z, e) == [z EXCEPT !.err = e]
\* return err
ZipReturn(z, e) == [z EXCEPT !.err = e, !.pc = "failed"]

\* lines 441-454: GetObject.  r is nil and readerInitCtx open at the start of
\* each iteration; the handler stores the reader and signals, either before
\* GetObject returns or later (the wait of line 466 is for that case)
ZipFetch ==
    /\ zp.pc = "fetch"
    /\ LET id == zp.ids[zp.i]
           z == [zp EXCEPT !.fetches = Append(@, id), !.r = <<>>, !.ready = FALSE,
                           !.handlerAt = ""]
       IN  \/ zp' = [z EXCEPT !.r = ObjectPayload(id), !.ready = TRUE,
                              !.handlerAt = "in GetObject",
                              !.obj = ObjectAttrs(id), !.pc = "entry"]
           \/ zp' = [z EXCEPT !.obj = ObjectAttrs(id), !.pc = "entry"]
           \/ zp' = ZipReturn(z, "get object")
    /\ UNCHANGED <<upVars, dl, det, zr, rf, cu>>

\* lines 446-449: the payload reader handler, called after GetObject returned
ZipHandler ==
    /\ zp.pc \in {"entry", "copy"}
    /\ ~zp.ready
    /\ zp' = [zp EXCEPT !.r = ObjectPayload(zp.ids[zp.i]), !.ready = TRUE,
                        !.handlerAt = "after GetObject"]
    /\ UNCHANGED <<upVars, dl, det, zr, rf, cu>>

\* the parent request c is cancelled: every readerInitCtx derived from it at
\* line 443 is done from then on
ZipCancel ==
    /\ zp.pc \in {"fetch", "entry", "copy", "flush", "close"}
    /\ ~zp.cancelled
    /\ zp' = [zp EXCEPT !.cancelled = TRUE]
    /\ UNCHANGED <<upVars, dl, det, zr, rf, cu>>

\* lines 456-464: zipWriter.CreateHeader
ZipCreateHeader ==
    /\ zp.pc = "entry"
    /\ \/ zp' = [zp EXCEPT
                !.entries = Append(@, [name |-> getFilename(zp.obj),
                                       method |-> Compression(zp.zipCompression),
                                       data |-> <<>>, flushed |-> FALSE]),
                !.pc = "copy"]
       \/ zp' = ZipReturn(zp, "create header")
    /\ UNCHANGED <<upVars, dl, det, zr, rf, cu>>

\* lines 466-470: wait until readerInitCtx is done (the handler has
\* signalled, or the parent was cancelled), then io.Copy from r; with r
\* still nil the copy dereferences a nil reader and the handler panics
ZipCopy ==
    /\ zp.pc = "copy"
    /\ zp.ready \/ zp.cancelled
    /\ IF zp.ready
       THEN \/ zp' = [zp EXCEPT !.entries[Len(zp.entries)].data = zp.r,
                                !.pc = "flush"]
            \/ \E n \in 0..(Len(zp.r) - 1) :
                  zp' = ZipReturn([zp EXCEPT !.entries[Len(zp.entries)].data =
                                                   SubSeq(zp.r, 1, n)], "copy")
       ELSE zp' = [zp EXCEPT !.pc = "panic"]
    /\ UNCHANGED <<upVars, dl, det, zr, rf, cu>>

\* lines 472-475: zipWriter.Flush, then the next identifier
ZipFlush ==
    /\ zp.pc = "flush"
    /\ \/ zp' = [zp EXCEPT !.entries[Len(zp.entries)].flushed = TRUE,
                           !.i = @ + 1,
                           !.pc = IF zp.i + 1 > Len(zp.ids) THEN "close" ELSE "fetch"]
       \/ zp' = ZipReturn(zp, "flush")
    /\ UNCHANGED <<upVars, dl, det, zr, rf, cu>>

\* line 477: zipWriter.Close
ZipClose ==
    /\ zp.pc = "close"
    /\ \/ zp' = [zp EXCEPT !.closed = TRUE, !.pc = "done"]
       \/ zp' = ZipReturn([zp EXCEPT !.closed = TRUE], "close")
    /\ UNCHANGED <<upVars, dl, det, zr, rf, cu>>

InitZipStream ==
    /\ IdleUpload /\ IdleDownload /\ IdleDetector /\ IdleZipped
    /\ IdleReceive /\ IdleConcurrent
    /\ \E k \in 1..MaxIds : \E ids \in [1..k -> ZipObjectIDs], comp \in BOOLEAN :
          zp = InitZip(ids, comp)

NextZip ==
    \/ ZipFetch \/ ZipHandler \/ ZipCancel
    \/ ZipCreateHeader \/ ZipCopy \/ ZipFlush \/ ZipClose
SpecZip == InitZipStream /\ [][NextZip]_vars

\* the filename attribute of each object of the container ("" without one)
FilenameOf(id) ==
    CASE id = "o1" -> "a.txt" [] id = "o2" -> "" [] OTHER -> "b.txt"

\* C10: when every fetch, entry creation, copy and flush succeeds, streamFiles
\* has written exactly one entry per identifier, in the order of the list, each
\* named after the object's filename attribute (empty without one) and holding
\* its payload, and has closed the archive.
C10_OneEntryPerObject ==
    /\ (zp.pc = "done" =>
            /\ Len(zp.entries) = Len(zp.ids)
            /\ zp.closed
            /\ zp.fetches = zp.ids)
    /\ (zp.pc \in {"done", "close"} =>
            \A i \in 1..Len(zp.ids) :
                /\ zp.entries[i].name = FilenameOf(zp.ids[i])
                /\ zp.entries[i].data = ObjectPayload(zp.ids[i])
                /\ zp.entries[i].flushed)
    /\ (zp.pc # "done" /\ zp.err = "" => ~zp.closed)
\* C10 witness: a list of one identifier, and a list with a repeated and a
\* filename-less object, both end in a closed archive; the second is named.
C10_Witness ==
    /\ zp.pc = "done" /\ zp.closed
    /\ zp.ids = <<"o3", "o2", "o1">>
    /\ Len(zp.entries) = 3

(***************************************************************************)
(* Downloader.DownloadZipped (part_000, lines 394-432): the container ID,  *)
(* the bearer token, the search by prefix, the archive headers and the     *)
(* stream of streamFiles.                                                  *)
(***************************************************************************)
\* BearerTokenFromHeader, lines 29-38: nil unless "Bearer " and a value follow
BearerTokenFromHeader(auth) ==
    IF auth.present /\ auth.bearer /\ ~(auth.val.ok64 /\ auth.val.n = 0)
    THEN auth.val ELSE NoValue
\* BearerTokenFromCookie, lines 41-48: nil for an empty cookie
BearerTokenFromCookie(cookie) ==
    IF cookie.present /\ ~(cookie.ok64 /\ cookie.n = 0) THEN cookie ELSE NoValue
\* lines 83-88 for one source: "" when it yields the token, else the error
ParseSource(buf) ==
    IF ~buf.present THEN "nil"
    ELSE IF ~buf.ok64 THEN "can't base64-decode bearer token"
    ELSE IF ~buf.json THEN "can't unmarshal bearer token"
    ELSE ""
\* fetchBearerToken, lines 69-97: the header, then the cookie; the first source
\* that yields a token wins, else the last error (none: no token, no error)
fetchBearerToken(hdr) ==
    LET h == ParseSource(BearerTokenFromHeader(hdr.auth))
        c == ParseSource(BearerTokenFromCookie(hdr.cookie))
    IN  IF h = "" \/ c = "" THEN [tkn |-> TRUE, err |-> ""]
        ELSE IF c # "nil" THEN [tkn |-> FALSE, err |-> c]
        ELSE IF h # "nil" THEN [tkn |-> FALSE, err |-> h]
        ELSE [tkn |-> FALSE, err |-> ""]

\* the outcomes of searchByPrefix: a non-empty list of identifiers, no match
\* (errObjectNotFound), or a failed search
SearchOutcomes ==
    {[err |-> "", ids |-> ids] :
        ids \in UNION {[1..k -> ZipObjectIDs] : k \in 1..MaxIds}}
        \cup {[err |-> "object not found", ids |-> <<>>],
              [err |-> "search failed", ids |-> <<>>]}

ZippedRequests == [cid : CIDs, auth : AuthHeaders, cookie : Cookies]

InitZr(r, comp) ==
    [pc |-> "cid", req |-> r, zipCompression |-> comp, status |-> 0, msg |-> "",
     errCount |-> 0, headers |-> {}, started |-> FALSE, tokenStored |-> FALSE,
     searched |-> FALSE, searchErr |-> ""]

\* response.Error(c, msg, code): the error response with the given status
ResponseError(z, m, code) ==
    [z EXCEPT !.status = code, !.msg = m, !.errCount = @ + 1, !.pc = "done"]

\* lines 395-405
ZippedParseContainer ==
    /\ zr.pc = "cid"
    /\ zr' = IF zr.req.cid \in ValidCIDs
             THEN [zr EXCEPT !.pc = "bearer"]
             ELSE ResponseError(zr, "wrong container id", StatusBadRequest)
    /\ UNCHANGED <<upVars, dl, det, zp, rf, cu>>

\* lines 407-411: tokens.StoreBearerToken
ZippedStoreBearerToken ==
    /\ zr.pc = "bearer"
    /\ LET t == fetchBearerToken(zr.req)
       IN  zr' = IF t.err # ""
                 THEN ResponseError(zr, "could not fetch and store bearer token",
                                    StatusBadRequest)
                 ELSE [zr EXCEPT !.tokenStored = t.tkn, !.pc = "search"]
    /\ UNCHANGED <<upVars, dl, det, zp, rf, cu>>

\* lines 413-421: searchByPrefix
ZippedSearch ==
    /\ zr.pc = "search"
    /\ \E o \in SearchOutcomes :
          IF o.err # ""
          THEN /\ zr' = ResponseError([zr EXCEPT !.searched = TRUE, !.searchErr = o.err],
                                      "couldn't find objects",
                                      IF o.err = "object not found"
                                      THEN StatusNotFound ELSE StatusBadRequest)
               /\ zp' = zp
          ELSE \* lines 423-425, and streamFiles entered at line 427
               /\ zr' = [zr EXCEPT !.searched = TRUE,
                                   !.headers = {"Content-Type", "Content-Disposition"},
                                   !.status = StatusOK, !.started = TRUE,
                                   !.pc = "stream"]
               /\ zp' = InitZip(o.ids, zr.zipCompression)
    /\ UNCHANGED <<upVars, dl, det, rf, cu>>

\* lines 427-431: the result of streamFiles
ZippedFinish ==
    /\ zr.pc = "stream"
    /\ zp.pc \in {"done", "failed"}
    /\ zr' = IF zp.err # ""
             THEN ResponseError(zr, "couldn't stream", StatusInternalServerError)
             ELSE [zr EXCEPT !.pc = "done"]
    /\ UNCHANGED <<upVars, dl, det, zp, rf, cu>>

InitZipped ==
    /\ IdleUpload /\ IdleDownload /\ IdleDetector /\ IdleZip
    /\ IdleReceive /\ IdleConcurrent
    /\ \E r \in ZippedRequests, comp \in BOOLEAN : zr = InitZr(r, comp)

NextZipped ==
    \/ ZippedParseContainer \/ ZippedStoreBearerToken \/ ZippedSearch \/ ZippedFinish
    \/ ZipFetch \/ ZipHandler \/ ZipCancel
    \/ ZipCreateHeader \/ ZipCopy \/ ZipFlush \/ ZipClose
SpecZipped == InitZipped /\ [][NextZipped]_vars

\* C11: once the archive response has started (status 200 and the archive
\* headers set), no later step changes the status or writes an error message:
\* a failure of streamFiles leaves the status and the headers as they were.
C11_StartedResponseUnchanged ==
    zr.pc # "idle" /\ zr.started =>
        /\ zr.status = StatusOK
        /\ zr.msg = "" /\ zr.errCount = 0
        /\ zr.headers = {"Content-Type", "Content-Disposition"}

\* the bearer value the resolution order selects for a zip request: the
\* Authorization header when it carries the Bearer scheme, the cookie otherwise
ZippedSelectedBearer ==
    IF zr.req.auth.present /\ zr.req.auth.bearer THEN zr.req.auth.val ELSE zr.req.cookie
\* a selected value that is not empty and is not the base64 of a token
ZippedBearerMalformed ==
    /\ ZippedSelectedBearer.present
    /\ ~(ZippedSelectedBearer.ok64 /\ ZippedSelectedBearer.n = 0)
    /\ ~(ZippedSelectedBearer.ok64 /\ ZippedSelectedBearer.json)
\* nothing of the archive response was produced and no object was fetched
NoArchiveStarted ==
    /\ zr.headers = {} /\ ~zr.started /\ zr.status # StatusOK
    /\ zp = [pc |-> "idle"]

\* C12: in DownloadZipped a search without matches ends in status 404; a
\* malformed container ID, a malformed bearer token or a failed search ends in
\* status 400; in each case no archive header and no status 200 is set and no
\* object is fetched.
C12_ZippedFailures ==
    zr.pc # "idle" =>
        /\ (zr.req.cid \notin ValidCIDs /\ zr.pc # "cid" =>
                zr.status = StatusBadRequest /\ NoArchiveStarted)
        /\ (zr.req.cid \in ValidCIDs /\ ZippedBearerMalformed
                /\ zr.pc \notin {"cid", "bearer"} =>
                zr.status = StatusBadRequest /\ NoArchiveStarted /\ ~zr.searched)
        /\ (zr.searchErr = "object not found" =>
                zr.status = StatusNotFound /\ NoArchiveStarted)
        /\ (zr.searchErr = "search failed" =>
                zr.status = StatusBadRequest /\ NoArchiveStarted)

(***************************************************************************)
(* Further claims about Upload and ReadBearer.                             *)
(***************************************************************************)
\* the upload failed at the storage network: the network info needed by
\* ExpireAfter could not be read, or PutObject failed
StorageFailure ==
    \/ net.putCalls > 0 /\ ~net.putOk
    \/ net.expireCalls > 0 /\ fail

ResolvedBearer ==
    IF req.auth.present /\ req.auth.bearer
          /\ ~(req.auth.val.ok64 /\ req.auth.val.n = 0)
    THEN req.auth.val ELSE req.cookie

\* C14: ReadBearer takes the value of "Authorization: Bearer <value>" when the
\* header carries one and the Bearer cookie otherwise; it returns 0 exactly
\* when neither supplies a value, -1 exactly when the selected value is not
\* valid base64, and 1 otherwise; "Bearer " followed by nothing counts as
\* absent and falls back to the cookie.
C14_ReadBearerResolution ==
    pc \notin {"idle", "start", "bearer"} /\ req.cid \in ValidCIDs =>
        ReadBearer(req).code =
            (IF ~ResolvedBearer.present THEN 0
             ELSE IF ~ResolvedBearer.ok64 THEN -1 ELSE 1)

(***************************************************************************)
(* Further claims about Downloader.read.                                   *)
(***************************************************************************)
\* C15: for a request handled by read with the filename-prefix selector the
\* ResRead reports WaitingOwner false and no X-Owner-Id header is emitted; for
\* the by-ID and by-attribute selectors WaitingOwner reports true.
C15_OwnerSuppressedForFilename ==
    dl.pc # "idle" /\ dl.readCalls > 0 =>
        /\ (WaitingOwner(dl.res) <=> dl.req.selector # byFile)
        /\ (dl.req.selector = byFile =>
                \A h \in dl.headers : h[1] # "X-Owner-Id")

(***************************************************************************)
(* Further claims about initPayloadSource.                                 *)
(***************************************************************************)
\* the index of the first part with a field name and a filename (0: none)
FirstUsable ==
    IF HasUsablePart
    THEN CHOOSE i \in 1..Len(req.parts) :
            /\ Usable(req.parts[i])
            /\ \A j \in 1..(i - 1) : ~Usable(req.parts[j])
    ELSE 0
\* initPayloadSource has been entered and has returned, or goes on reading
PayloadSourceEntered == pc = "payload" \/ (pc = "done" /\ partPos > 0)

\* C16: initPayloadSource binds the first part, in body order, that has a
\* field name and a filename, stops reading parts there without failing and
\* ignores the later parts; it fails only when there is no such part (or a part
\* cannot be read).
C16_FirstUsablePartBound ==
    PayloadSourceEntered /\ HasUsablePart =>
        /\ partPos <= FirstUsable
        /\ ~fail
        /\ (srcPayload # 0 => srcPayload = FirstUsable)

(***************************************************************************)
(* Claims about objectCreator.Close, ExpireAfter and the end of Upload,    *)
(* examined from the context Upload holds at line 175.                     *)
(***************************************************************************)
\* the request offered a token that UseBearerToken accepted
TokenAccepted ==
    ReadBearer(req).code = 1 /\ UnmarshalJSONOk(ReadBearer(req).dst)

EpochDurationOf(params) ==
    IF \E i \in 1..Len(params) : params[i].key = "EpochDuration"
    THEN params[CHOOSE i \in 1..Len(params) : params[i].key = "EpochDuration"].val
    ELSE 0
\* ExpireAfter was called and has read a snapshot of the network
SnapshotRead == pc \in {"close", "panic"} /\ net.infoCalls = 1 /\ ~fail

EntryComplete(j) ==
    /\ j <= Len(zp.entries)
    /\ zp.entries[j].data = ObjectPayload(zp.ids[j])
    /\ zp.entries[j].flushed
AllEntriesComplete ==
    /\ Len(zp.entries) = Len(zp.ids)
    /\ \A j \in 1..Len(zp.ids) : EntryComplete(j)

\* C21: streamFiles handles one object at a time: the object i+1 is fetched
\* only after the entry of object i was copied in full and flushed; the writer
\* is closed if and only if every object was fetched, given an entry, copied
\* and flushed without error; after the first error no object is fetched and
\* no entry is opened any more.
C21_OneAtATime ==
    zp.pc # "idle" =>
        /\ zp.fetches = SubSeq(zp.ids, 1, Len(zp.fetches))
        /\ Len(zp.entries) <= Len(zp.fetches)
        /\ Len(zp.fetches) <= Len(zp.entries) + 1
        /\ \A j \in 1..(Len(zp.fetches) - 1) : EntryComplete(j)
        /\ (zp.closed => AllEntriesComplete)
        /\ (zp.pc \in {"done", "failed"} /\ AllEntriesComplete => zp.closed)
        /\ (zp.err # "" =>
                /\ zp.pc = "failed"
                /\ (zp.err = "close" => Len(zp.fetches) = Len(zp.ids))
                /\ (zp.err # "close" =>
                        /\ Len(zp.fetches) = zp.i
                        /\ ~zp.closed /\ ~EntryComplete(zp.i)))
\* C21 witness: the copy of the second of three objects fails; the third is
\* never fetched and the archive is not closed.
C21_Witness ==
    /\ zp.pc = "failed" /\ zp.err = "copy"
    /\ Len(zp.ids) = 3 /\ Len(zp.fetches) = 2 /\ Len(zp.entries) = 2
    /\ ~zp.closed

\* C22: whatever the order of the payload-reader handler, the return of the
\* fetch and the cancellation of the parent request, the copy of an entry
\* starts only once the handler has supplied the reader of that object; a
\* cancellation while waiting does not start the copy with an absent reader.
C22_CopyOnlyWithReader ==
    zp.pc # "idle" =>
        /\ (zp.pc = "flush" \/ zp.err = "copy" => zp.ready)
        /\ zp.pc # "panic"

(***************************************************************************)
(* Further claims about the bearer token of a zip request.                 *)
(***************************************************************************)
\* the Authorization header carries "Bearer " and a value that is not empty
\* and either is not base64 or does not deserialize into a token
ZippedHeaderMalformed ==
    /\ zr.req.auth.present /\ zr.req.auth.bearer
    /\ ~(zr.req.auth.val.ok64 /\ zr.req.auth.val.n = 0)
    /\ ~(zr.req.auth.val.ok64 /\ zr.req.auth.val.json)
\* what the upload path makes of the same header and cookie: ReadBearer
\* reports -1, or UseBearerToken refuses the decoded bytes
ReadBearerRejects(hdr) ==
    \/ ReadBearer(hdr).code = -1
    \/ ReadBearer(hdr).code = 1 /\ ~UnmarshalJSONOk(ReadBearer(hdr).dst)

\* C23: where the token is resolved by StoreBearerToken (fetchBearerToken), a
\* request whose "Authorization: Bearer" value fails base64 decoding or
\* deserialization is rejected with a client error, also when a well-formed
\* Bearer cookie is present, and the outcome agrees with what ReadBearer
\* reports for the same header and cookie.
C23_MalformedHeaderNotMasked ==
    zr.pc \notin {"idle", "cid", "bearer"} /\ zr.req.cid \in ValidCIDs =>
        /\ (ZippedHeaderMalformed =>
                /\ zr.status = StatusBadRequest
                /\ ~zr.tokenStored /\ ~zr.searched)
        /\ ((fetchBearerToken(zr.req).err # "") <=> ReadBearerRejects(zr.req))

(***************************************************************************)
(* Further claims about the headers of an upload.                          *)
(***************************************************************************)
\* the canonical system form of a key with the "Neofs-" alias: the system
\* prefix and the rest in upper case with "_" for "-"; other keys unchanged
CanonicalKey(key) ==
    IF key = "Neofs-Expiration-Epoch" THEN SysAttributeExpEpoch ELSE key
\* the header iteration ended without an expiration failure
IterationPassed == HeadersProcessed /\ err \in {"", "encode"}

C28_ReadBearerRoundTrip ==
    pc \notin {"idle", "start", "bearer"} /\ req.cid \in ValidCIDs
        /\ SelectedBearer.present /\ SelectedBearer.ok64 =>
        /\ ReadBearer(req).code = 1
        /\ ReadBearer(req).dst.n = SelectedBearer.n
        /\ ReadBearer(req).dst.len = SelectedBearer.n

(***************************************************************************)
(* request.receiveFile (src/unnamed/part_000, lines 119-195): the          *)
(* attributes of the fetched object become response headers.  A string is  *)
(* the sequence of its character codes, so that isValidToken and           *)
(* isValidValue are computed character by character as the code does.      *)
(***************************************************************************)
MaxAttrs == 2

\* utils.SystemAttributePrefix, "__NEOFS__" (part_000, line 197)
SystemAttributePrefix == <<95, 95, 78, 69, 79, 70, 83, 95, 95>>
\* utils.UserAttributeHeaderPrefix, "X-Attribute-"
UserAttributeHeaderPrefix == <<88, 45, 65, 116, 116, 114, 105, 98, 117, 116, 101, 45>>
\* object.AttributeFileName, "FileName"
AttributeFileNameText == <<70, 105, 108, 101, 78, 97, 109, 101>>
\* object.AttributeTimestamp, "Timestamp"
AttributeTimestampText == <<84, 105, 109, 101, 115, 116, 97, 109, 112>>
\* object.AttributeContentType, "Content-Type"
AttributeContentTypeText == <<67, 111, 110, 116, 101, 110, 116, 45, 84, 121, 112, 101>>

\* the characters of "()<>@,;:\\\"/[]?={}" (line 102)
TokenSeparators ==
    {40, 41, 60, 62, 64, 44, 59, 58, 92, 34, 47, 91, 93, 63, 61, 123, 125}

\* lines 97-107
isValidToken(s) ==
    \A j \in 1..Len(s) :
        /\ ~(s[j] <= 32 \/ s[j] > 127)
        /\ s[j] \notin TokenSeparators

\* lines 109-117
isValidValue(s) ==
    \A j \in 1..Len(s) : ~(s[j] < 32 \/ s[j] > 127 \/ s[j] = 34)

\* strings.HasPrefix and strings.TrimPrefix
HasPrefix(s, p) == Len(s) >= Len(p) /\ SubSeq(s, 1, Len(p)) = p
TrimPrefix(s, p) == IF HasPrefix(s, p) THEN SubSeq(s, Len(p) + 1, Len(s)) ELSE s

\* strings.ToLower on one character, and the upper case of a lower-case letter
ToLower(c) == IF c >= 65 /\ c <= 90 THEN c + 32 ELSE c
ToUpper(c) == IF c >= 97 /\ c <= 122 THEN c - 32 ELSE c
\* where strings.Title starts a new word: after anything but a letter, a digit
\* or an underscore
isSeparator(c) ==
    ~((c >= 48 /\ c <= 57) \/ (c >= 97 /\ c <= 122) \/ (c >= 65 /\ c <= 90) \/ c = 95)

\* systemBackwardTranslator, lines 198-215: the prefix is trimmed, the rest is
\* split at '_', every piece is lower-cased and then title-cased, and the
\* pieces are joined by '-' behind "Neofs-"
systemBackwardTranslator(key) ==
    LET k == TrimPrefix(key, SystemAttributePrefix)
        low == [j \in 1..Len(k) |-> ToLower(k[j])]
        piece == [j \in 1..Len(k) |->
                    IF low[j] = 95 THEN 45
                    ELSE IF j = 1 \/ low[j - 1] = 95 \/ isSeparator(low[j - 1])
                         THEN ToUpper(low[j]) ELSE low[j]]
    IN  <<78, 101, 111, 102, 115, 45>> \o piece

\* strconv.ParseInt(val, 10, 64), line 165, on the values of the pool: the
\* number of a non-empty string of digits, an error (-1) otherwise
RECURSIVE DigitsValue(_)
DigitsValue(s) ==
    IF s = <<>> THEN 0 ELSE DigitsValue(SubSeq(s, 1, Len(s) - 1)) * 10 + (s[Len(s)] - 48)
ParseIntText(s) ==
    IF s # <<>> /\ \A j \in 1..Len(s) : s[j] >= 48 /\ s[j] <= 57
    THEN DigitsValue(s) ELSE -1

\* Response.Header.Set: the header of that name is replaced, else added
HeaderSet(hs, k, v) ==
    Append(SelectSeq(hs, LAMBDA e : e.key # k), [key |-> k, val |-> v])

\* the attribute keys and values an object may carry: plain ones, a system
\* attribute, the timestamp, and ones with a space, a separator, a quote, a
\* control character, DEL (127) and a non-ASCII character
ObjectAttributes ==
    [key : {<<65>>, <<65, 47>>, <<32>>, <<65, 127>>, <<233>>,
            SystemAttributePrefix \o <<65, 95, 66>>, AttributeTimestampText},
     val : {<<97>>, <<55>>, <<34>>, <<31>>, <<32>>, <<97, 127>>, <<233>>}]

InitRf(t, attrs) ==
    [pc |-> "bearer", req |-> t, attrs |-> attrs, i |-> 1, headers |-> <<>>,
     status |-> 0, msg |-> "", errCount |-> 0, tokenStored |-> FALSE,
     filename |-> <<>>, contentType |-> <<>>, lastModified |-> -1]

\* lines 127-131: tokens.StoreBearerToken
RfStoreBearerToken ==
    /\ rf.pc = "bearer"
    /\ LET t == fetchBearerToken(rf.req)
       IN  rf' = IF t.err # ""
                 THEN ResponseError(rf, "could not fetch and store bearer token",
                                    StatusBadRequest)
                 ELSE [rf EXCEPT !.tokenStored = t.tkn, !.pc = "get"]
    /\ UNCHANGED <<upVars, dl, det, zp, zr, cu>>

\* lines 132-149: clnt.GetObject; an error goes to handleNeoFSErr (lines
\* 217-239), which answers 404 for "not found" and 400 otherwise
RfGetObject ==
    /\ rf.pc = "get"
    /\ \E e \in {"", "not found", "timeout"} :
        rf' = IF e = "" THEN [rf EXCEPT !.pc = "attrs"]
              ELSE IF e = "not found"
                   THEN ResponseError(rf, "object not found", StatusNotFound)
                   ELSE ResponseError(rf, "could not receive object", StatusBadRequest)
    /\ UNCHANGED <<upVars, dl, det, zp, zr, cu>>

\* lines 151-178: one iteration of the loop over obj.Attributes()
RfAttribute ==
    /\ rf.pc = "attrs"
    /\ rf.i <= Len(rf.attrs)
    /\ LET attr == rf.attrs[rf.i]
           val == attr.val
           key == IF HasPrefix(attr.key, SystemAttributePrefix)
                  THEN systemBackwardTranslator(attr.key) ELSE attr.key
       IN  IF ~isValidToken(attr.key) \/ ~isValidValue(val)
           THEN rf' = [rf EXCEPT !.i = @ + 1]
           ELSE LET set == [rf EXCEPT !.i = @ + 1,
                               !.headers = HeaderSet(@, UserAttributeHeaderPrefix \o key, val)]
                IN  rf' = CASE key = AttributeFileNameText -> [set EXCEPT !.filename = val]
                            [] key = AttributeTimestampText /\ ParseIntText(val) < 0 -> set
                            [] key = AttributeTimestampText /\ ParseIntText(val) >= 0 ->
                                 [set EXCEPT !.lastModified = ParseIntText(val)]
                            [] key = AttributeContentTypeText -> [set EXCEPT !.contentType = val]
                            [] OTHER -> set
    /\ UNCHANGED <<upVars, dl, det, zp, zr, cu>>

\* lines 179-181: the identifier headers, and the return
RfFinish ==
    /\ rf.pc = "attrs"
    /\ rf.i > Len(rf.attrs)
    /\ rf' = [rf EXCEPT !.pc = "done"]
    /\ UNCHANGED <<upVars, dl, det, zp, zr, cu>>

InitReceive ==
    /\ IdleUpload /\ IdleDownload /\ IdleDetector /\ IdleZip /\ IdleZipped
    /\ IdleConcurrent
    /\ \E t \in [auth : AuthHeaders, cookie : Cookies] :
        \E k \in 0..MaxAttrs : \E attrs \in [1..k -> ObjectAttributes] :
            rf = InitRf(t, attrs)

NextReceive == RfStoreBearerToken \/ RfGetObject \/ RfAttribute \/ RfFinish

SpecReceive == InitReceive /\ [][NextReceive]_vars

\* the response headers that carry an attribute, and the attributes the loop
\* has gone through
AttributeHeaders ==
    {rf.headers[j] : j \in {n \in 1..Len(rf.headers) :
                              HasPrefix(rf.headers[n].key, UserAttributeHeaderPrefix)}}
VisitedAttributes == {rf.attrs[j] : j \in 1..(rf.i - 1)}
PassingAttributes ==
    {a \in VisitedAttributes : isValidToken(a.key) /\ isValidValue(a.val)}
HeaderNameOf(a) ==
    UserAttributeHeaderPrefix \o
        (IF HasPrefix(a.key, SystemAttributePrefix)
         THEN systemBackwardTranslator(a.key) ELSE a.key)
\* a header is emitted iff an attribute passing both checks names it
EmittedIffPassing ==
    /\ {h.key : h \in AttributeHeaders} = {HeaderNameOf(a) : a \in PassingAttributes}
    /\ \A h \in AttributeHeaders :
        \E a \in PassingAttributes : HeaderNameOf(a) = h.key /\ a.val = h.val
\* a skipped attribute neither fails the request nor ends the loop
SkipGoesOn ==
    /\ rf.pc = "attrs" => rf.errCount = 0
    /\ rf.pc = "done" /\ rf.errCount = 0 => rf.i = Len(rf.attrs) + 1
\* no control character, DEL, non-ASCII character or (in a value) double quote
SafeKeyChar(c) == c > 32 /\ c # 127 /\ c <= 127
SafeValueChar(c) == c >= 32 /\ c # 127 /\ c <= 127 /\ c # 34
EmittedCharsSafe ==
    \A h \in AttributeHeaders :
        /\ \A j \in 1..Len(h.key) : SafeKeyChar(h.key[j])
        /\ \A j \in 1..Len(h.val) : SafeValueChar(h.val[j])

\* C25: in receiveFile an attribute becomes a response header iff its key
\* passes isValidToken and its value passes isValidValue, a failing attribute
\* is skipped without failing the request or stopping the loop, and no
\* emitted key or value holds a control character, code 127, a non-ASCII
\* character or (in a value) a double quote.
C25_EmittedHeadersSafe ==
    rf.pc \in {"attrs", "done"} =>
        EmittedIffPassing /\ SkipGoesOn /\ EmittedCharsSafe

(***************************************************************************)
(* Concurrent Upload requests.  Every call of Uploader.Upload declares its *)
(* own uploadContext (upload.go, line 140), takes its own objectCreator    *)
(* from neofs.InitObjectCreation (neofs.go, lines 216-223) and runs        *)
(* processHeaders with its own hdr, meta and exp (upload.go, lines         *)
(* 235-244).  The steps of Upload are written here as functions of one     *)
(* request's state s = [c, oc], its context and the creator the context    *)
(* refers to; the handlers take these steps in any interleaving.           *)
(***************************************************************************)
NumRequests == 2
UploadCalls == 1..NumRequests

\* a creator shared by all calls
SharedCreator(r) == 1
\* neofs.InitObjectCreation, neofs.go lines 216-223: every call allocates a
\* new objectCreator
CreatorOf(r) == r

\* the header lists of the concurrent requests
ConcurrentHeaders ==
    {<<Hdr(TRUE, "Other", Val("txt", 0))>>,
     <<Hdr(TRUE, AttributeFileName, Val("txt", 0)), Hdr(TRUE, "Other", Val("dur", 501))>>,
     <<Hdr(TRUE, SysAttributeExpEpoch, Val("int", 7)),
       Hdr(FALSE, "Content-Type", Val("txt", 0))>>}
\* requests entering Upload (line 140); putOk is the answer the storage will
\* give to the request's put
EnteringRequests ==
    [cid : ValidCIDs \cup {"not-a-cid"}, auth : {[present |-> FALSE, bearer |-> FALSE, val |-> NoValue]},
     cookie : {NoValue, GoodToken, Encoded(TRUE, 3, FALSE)},
     parts : {<<[form |-> "file", file |-> "a.txt"]>>}, headers : {<<>>},
     defaultTimestamp : {FALSE}, putOk : {TRUE}, at : {"start"}]
\* requests holding the context of line 175
PayloadBoundRequests ==
    [cid : ValidCIDs, auth : {[present |-> FALSE, bearer |-> FALSE, val |-> NoValue]}, cookie : {NoValue, GoodToken},
     parts : {<<[form |-> "", file |-> ""], [form |-> "file", file |-> "a.txt"]>>},
     headers : ConcurrentHeaders,
     defaultTimestamp : {FALSE}, putOk : BOOLEAN, at : {"bound"}]

\* the network ExpireAfter reads during the concurrent requests
ConcurrentSnapshot == [epoch |-> 1, durEpoch |-> 1, msPerBlock |-> 1]

RECURSIVE LastUsable(_, _)
\* initPayloadSource, lines 123-134: the part the loop has recorded when
\* NextPart fails (0: none)
LastUsable(parts, i) ==
    IF i = 0 THEN 0
    ELSE IF Usable(parts[i]) THEN i ELSE LastUsable(parts, i - 1)

\* the uploadContext of a request at line 140, or at line 175
InitCtx(q, id) ==
    [req |-> q, creator |-> id, steps |-> 0,
     pc |-> IF q.at = "start" THEN "start" ELSE "bound",
     fail |-> FALSE, err |-> "", status |-> 0, msg |-> "", errCount |-> 0,
     resp |-> [ObjectID |-> "",
               ContainerID |-> IF q.at = "start" THEN "" ELSE q.cid],
     srcPayload |-> IF q.at = "start" THEN 0 ELSE LastUsable(q.parts, Len(q.parts)),
     ph |-> InitPh, put |-> NoObject, body |-> NoBody]
\* the objectCreator of a request at line 144, or at line 175
InitCreatorOf(q) ==
    IF q.at = "start" THEN InitCreator
    ELSE [InitCreator EXCEPT !.cnr = q.cid,
                             !.bearerTokenSet = q.cookie.present,
                             !.bearerToken = ReadBearer(q).dst]

\* failRequest on a context
FailCtx(c, m) ==
    [c EXCEPT !.status = StatusBadRequest, !.msg = m, !.errCount = @ + 1]

\* Upload, lines 147-154
StepBindContainer(s) ==
    LET c == [s.c EXCEPT !.resp.ContainerID = s.c.req.cid]
    IN  IF c.req.cid \in ValidCIDs
        THEN [c |-> [c EXCEPT !.pc = "bearer"], oc |-> [s.oc EXCEPT !.cnr = c.req.cid]]
        ELSE [c |-> [FailCtx(c, "incorrect container ID") EXCEPT !.fail = TRUE,
                                                                  !.pc = "done"],
              oc |-> s.oc]

\* Upload, lines 156-166
StepReadBearerToken(s) ==
    LET r == ReadBearer(s.c.req)
    IN  CASE r.code = -1 ->
                [c |-> [FailCtx(s.c, "incorrect bearer token header") EXCEPT !.pc = "done"],
                 oc |-> s.oc]
          [] r.code = 1 /\ ~UnmarshalJSONOk(r.dst) ->
                [c |-> [FailCtx(s.c, "incorrect bearer token JSON") EXCEPT !.fail = TRUE,
                                                                          !.pc = "done"],
                 oc |-> s.oc]
          [] r.code = 1 /\ UnmarshalJSONOk(r.dst) ->
                [c |-> [s.c EXCEPT !.pc = "payload"],
                 oc |-> [s.oc EXCEPT !.bearerTokenSet = TRUE, !.bearerToken = r.dst]]
          [] OTHER -> [c |-> [s.c EXCEPT !.pc = "payload"], oc |-> s.oc]

\* initPayloadSource, lines 119-135, with the check of lines 169-173: the
\* loop ends with the error of NextPart only
StepPayloadSource(s) ==
    [c |-> [FailCtx(s.c, "receive multipart/form") EXCEPT
                !.srcPayload = LastUsable(s.c.req.parts, Len(s.c.req.parts)),
                !.err = "EOF", !.fail = TRUE, !.pc = "done"],
     oc |-> s.oc]

\* Upload, line 178
StepReadPayloadFrom(s) ==
    [c |-> [s.c EXCEPT !.pc = "headers", !.ph = InitPh],
     oc |-> [s.oc EXCEPT !.payload = s.c.srcPayload]]

\* processHeaders, lines 246-335: the callback of VisitAll for one header
StepVisitHeader(s) ==
    LET c == s.c
        h == c.req.headers[c.ph.i]
        typCur == ExpirationTypeOf(h.key)
    IN  CASE c.fail \/ h.val = EmptyVal -> [s EXCEPT !.c.ph.i = @ + 1]
          [] ~c.fail /\ h.val # EmptyVal /\ ~h.pfx ->
                [s EXCEPT !.c.ph.i = @ + 1, !.c.ph.hdr.Key = h.key]
          [] ~c.fail /\ h.val # EmptyVal /\ h.pfx /\ typCur > 0
                /\ (c.ph.meta.expiration \/ typCur < c.ph.exp.typ) ->
                [s EXCEPT !.c.ph.i = @ + 1, !.c.ph.hdr.Key = h.key,
                          !.c.ph.exp.typCur = typCur]
          [] ~c.fail /\ h.val # EmptyVal /\ h.pfx /\ typCur > 0
                /\ ~c.ph.meta.expiration /\ typCur >= c.ph.exp.typ ->
                LET r == ParseExpiration(typCur, ParsedValue(c.ph.hdr, h), c.ph.exp.dur)
                    n == [c EXCEPT !.ph.i = @ + 1, !.ph.hdr.Key = h.key,
                                   !.ph.exp.typCur = typCur, !.ph.exp.typ = typCur,
                                   !.ph.exp.dur = r.dur, !.fail = ~r.ok, !.err = r.err]
                IN  [c |-> IF r.ok THEN n
                           ELSE FailCtx(n, "problem with expiration header, try expiration in epoch"),
                     oc |-> s.oc]
          [] OTHER ->
                LET hdr == [Key |-> h.key, Value |-> h.val,
                            SystemPrefixLen |-> calcSystemPrefixLen(h.key)]
                    key == StoredKey(hdr)
                IN  [c |-> [c EXCEPT !.ph.i = @ + 1, !.ph.hdr = hdr, !.ph.exp.typCur = 0,
                                     !.ph.meta = MetaAfter(c.ph.meta, key)],
                     oc |-> [s.oc EXCEPT !.attrs = Append(@, Attr(key, h.val))]]

\* lines 347-353, on a context
DefaultAttrsOf(c) ==
    (IF ~c.ph.meta.timestamp /\ c.req.defaultTimestamp
        THEN <<Attr(AttributeTimestamp, Val("int", NowSec))>> ELSE <<>>)
    \o (IF ~c.ph.meta.filename
        THEN <<Attr(AttributeFileName, Val("txt", c.srcPayload))>> ELSE <<>>)

\* processHeaders, lines 337-354, with ExpireAfter reading ConcurrentSnapshot
StepFinishHeaders(s) ==
    LET c == [s.c EXCEPT !.pc = "close"]
        sn == ConcurrentSnapshot
    IN  IF c.fail THEN [c |-> c, oc |-> s.oc]
        ELSE IF c.ph.meta.expiration
        THEN [c |-> c, oc |-> [s.oc EXCEPT !.attrs = @ \o DefaultAttrsOf(c)]]
        ELSE [c |-> c,
              oc |-> [s.oc EXCEPT !.attrs =
                        Append(@, Attr(SysAttributeExpEpoch,
                            Val("int", ExpirationEpoch(sn.epoch, c.ph.exp.dur,
                                                       sn.durEpoch, sn.msPerBlock))))
                        \o DefaultAttrsOf(c)]]

\* objectCreator.Close, neofs.go lines 46-78, and Upload, lines 184-188
StepClose(s) ==
    LET ok == s.c.req.putOk
        c == [s.c EXCEPT !.put = [put |-> TRUE, cnr |-> s.oc.cnr,
                                  owner |-> OwnerOf(s.oc.bearerTokenSet),
                                  attrs |-> s.oc.attrs, payload |-> s.oc.payload,
                                  withBearer |-> s.oc.bearerTokenSet],
                         !.resp.ObjectID = IF ok THEN "oidA" ELSE @,
                         !.fail = @ \/ ~ok]
    IN  [c |-> IF c.fail
               THEN [FailCtx(c, "store file in NeoFS failed") EXCEPT !.pc = "done"]
               ELSE [c EXCEPT !.pc = "respond"],
         oc |-> s.oc]

\* Upload, lines 190-211
StepFormResponse(s) ==
    [c |-> [s.c EXCEPT !.body = [ObjectID |-> s.c.resp.ObjectID,
                                 ContainerID |-> s.c.resp.ContainerID,
                                 written |-> TRUE],
                       !.status = StatusOK, !.pc = "done"],
     oc |-> s.oc]

\* the step Upload takes next in the state s of a request
UploadStep(s) ==
    LET n == CASE s.c.pc = "start" -> StepBindContainer(s)
               [] s.c.pc = "bearer" -> StepReadBearerToken(s)
               [] s.c.pc = "payload" -> StepPayloadSource(s)
               [] s.c.pc = "bound" -> StepReadPayloadFrom(s)
               [] s.c.pc = "headers" /\ s.c.ph.i <= Len(s.c.req.headers) ->
                    StepVisitHeader(s)
               [] s.c.pc = "headers" /\ s.c.ph.i > Len(s.c.req.headers) ->
                    StepFinishHeaders(s)
               [] s.c.pc = "close" -> StepClose(s)
               [] s.c.pc = "respond" -> StepFormResponse(s)
               [] OTHER -> s
    IN  [n EXCEPT !.c.steps = @ + 1]

\* the state of request r: its context and the creator the context holds
StateOf(r) == [c |-> cu.ctx[r], oc |-> cu.creators[cu.ctx[r].creator]]

\* request r takes its next step
CuStep(r) ==
    /\ LET n == UploadStep(StateOf(r))
       IN  cu' = [cu EXCEPT !.ctx[r] = n.c, !.creators[cu.ctx[r].creator] = n.oc]
    /\ UNCHANGED <<upVars, dl, det, zp, zr, rf>>

CuBindContainer ==
    \E r \in UploadCalls :
        /\ cu.pc = "run" /\ cu.ctx[r].pc = "start"
        /\ CuStep(r)
CuReadBearerToken ==
    \E r \in UploadCalls :
        /\ cu.pc = "run" /\ cu.ctx[r].pc = "bearer"
        /\ CuStep(r)
CuPayloadSource ==
    \E r \in UploadCalls :
        /\ cu.pc = "run" /\ cu.ctx[r].pc = "payload"
        /\ CuStep(r)
CuReadPayloadFrom ==
    \E r \in UploadCalls :
        /\ cu.pc = "run" /\ cu.ctx[r].pc = "bound"
        /\ CuStep(r)
CuVisitHeader ==
    \E r \in UploadCalls :
        /\ cu.pc = "run" /\ cu.ctx[r].pc = "headers"
        /\ cu.ctx[r].ph.i <= Len(cu.ctx[r].req.headers)
        /\ CuStep(r)
CuFinishHeaders ==
    \E r \in UploadCalls :
        /\ cu.pc = "run" /\ cu.ctx[r].pc = "headers"
        /\ cu.ctx[r].ph.i > Len(cu.ctx[r].req.headers)
        /\ CuStep(r)
CuClose ==
    \E r \in UploadCalls :
        /\ cu.pc = "run" /\ cu.ctx[r].pc = "close"
        /\ CuStep(r)
CuFormResponse ==
    \E r \in UploadCalls :
        /\ cu.pc = "run" /\ cu.ctx[r].pc = "respond"
        /\ CuStep(r)

InitConcurrent ==
    /\ IdleUpload /\ IdleDownload /\ IdleDetector /\ IdleZip /\ IdleZipped
    /\ IdleReceive
    /\ \E qs \in [UploadCalls -> EnteringRequests \cup PayloadBoundRequests] :
        cu = [pc |-> "run",
              ctx |-> [r \in UploadCalls |-> InitCtx(qs[r], CreatorOf(r))],
              creators |-> [id \in UploadCalls |->
                              IF \E r \in UploadCalls : CreatorOf(r) = id
                              THEN InitCreatorOf(qs[CHOOSE r \in UploadCalls :
                                                        CreatorOf(r) = id])
                              ELSE InitCreator]]

NextConcurrent ==
    \/ CuBindContainer \/ CuReadBearerToken \/ CuPayloadSource \/ CuReadPayloadFrom
    \/ CuVisitHeader \/ CuFinishHeaders \/ CuClose \/ CuFormResponse

SpecConcurrent == InitConcurrent /\ [][NextConcurrent]_vars

RECURSIVE UploadAlone(_, _)
\* the state of a request that has taken n steps with no other request around
UploadAlone(q, n) ==
    IF n = 0 THEN [c |-> InitCtx(q, 0), oc |-> InitCreatorOf(q)]
    ELSE UploadStep(UploadAlone(q, n - 1))

====
